---- MODULE Spec2Model ----
(***************************************************************************)
(* A state-machine model of garak/generators/openai.py: the OpenAI         *)
(* compatible generator (OpenAICompatible / OpenAIGenerator).              *)
(*                                                                         *)
(* One generator instance is followed through construction, _call_model    *)
(* (wrapped by backoff.on_exception), _clear_client, pickling              *)
(* (__getstate__) and unpickling (__setstate__), the operations one after  *)
(* another and, in SpecOverlap, with a _clear_client or a __getstate__ of  *)
(* a second thread interleaved with a running call.                        *)
(***************************************************************************)
EXTENDS Integers, Sequences, FiniteSets, TLC

VARIABLES
    life,         \* "new" | "ready" | "failed": before / after __init__
    ctor_error,   \* the ValueError __init__ raised, <<"none">> if none
    self,         \* the instance's __dict__
    created,      \* number of openai.OpenAI handles built so far
    listed,       \* the answers to the client.models.list() queries so far
    pickled,      \* <<d>> for the dict d __getstate__ returned last, else <<>>
    pc,           \* position of the running _call_model call, "idle" if none
    prompt,       \* argument of the running (or last) call
    generations_this_call, \* argument of the running (or last) call
    create_args,  \* local variable of _call_model
    response,     \* local variable of _call_model: <<r>> once create() returned r
    tries,        \* backoff: number of times the target has been invoked
    fib,          \* backoff.fibo generator state <<a, b>>
    ceiling,      \* backoff: value the wait generator yielded last
    wait,         \* backoff: seconds slept last (after jitter)
    sent,         \* network calls issued by the running (or last) call
    transients,   \* faults of the running call that backoff retried
    answer,       \* what the last create() of the running call did: "response",
                  \* the exception raised, "none" before the call and after the sleep
    request,      \* <<r>> for the last request r the running call sent, else <<>>
    baseline,     \* <<b>> for the first request the instance sent, with its inputs
    outcome,      \* how the call ended: the value returned or the error raised
    last,         \* the operation that acted on the instance last, steps inside
                  \* a call apart: "construct", "generate", "release",
                  \* "serialize" or "restore"; "none" before construction
    clearing      \* position of a _clear_client() or __getstate__() that runs
                  \* while a call is in flight: the line it executes next,
                  \* "idle" if there is none

vars == <<life, ctor_error, self, created, listed, pickled, pc, prompt,
          generations_this_call, create_args, response, tries, fib, ceiling,
          wait, sent, transients, answer, request, baseline, outcome, last,
          clearing>>

-----------------------------------------------------------------------------
(* Bounds of the model *)

\* generations_this_call ranges over 1..MaxGenerations
MaxGenerations == 2
\* the provider raises at most MaxFaults retried faults within one call
MaxFaults == 11
\* the jitter draws (ceiling * j) \div JitterSteps for j in 0..JitterSteps
JitterSteps == 2
\* at most MaxHandles client handles are built in one behaviour
MaxHandles == 4
\* a configuration suppresses at most MaxSuppressed keys
MaxSuppressed == 2
\* a configuration leaves at most MaxAbsent parameters unset
MaxAbsent == 1
\* the provider raises at most RouterFaults retried faults within one call
\* when every model name is tried
RouterFaults == 1

-----------------------------------------------------------------------------
(* Python values, tagged by type *)

None == <<"None">>
Str(s) == <<"str", s>>
Num(i) == <<"int", i>>
Float(s) == <<"float", s>>
List(xs) == <<"list", xs>>
Tuple(xs) == <<"tuple", xs>>

\* isinstance(v, str), isinstance(v, list)
isinstance(v, type) == v[1] = type

-----------------------------------------------------------------------------
(* Module-level tables *)

chat_models == {
    "gpt-4", "gpt-4-turbo", "gpt-4o", "gpt-4o-mini", "gpt-4-turbo-preview",
    "gpt-3.5-turbo", "gpt-4-32k", "gpt-4-0125-preview", "gpt-4-1106-preview",
    "gpt-4-vision-preview", "gpt-4-1106-vision-preview", "gpt-4-0613",
    "gpt-4-32k-0613", "gpt-3.5-turbo-0125", "gpt-3.5-turbo-1106",
    "gpt-3.5-turbo-16k", "gpt-3.5-turbo-0613", "gpt-3.5-turbo-16k-0613" }

completion_models == {
    "gpt-3.5-turbo-instruct", "davinci-002", "babbage-002",
    "davinci-instruct-beta" }

\* the retry ceiling handed to backoff.fibo
max_value == 70

-----------------------------------------------------------------------------
(* String helpers of _load_client *)

Char(s, i) == SubSeq(s, i, i)

Digits == {"0", "1", "2", "3", "4", "5", "6", "7", "8", "9"}

RECURSIVE SplitFrom(_, _, _)
\* the parts of s from the part starting at j on, scanning at i
SplitFrom(s, i, j) ==
    IF i > Len(s) THEN << SubSeq(s, j, Len(s)) >>
    ELSE IF Char(s, i) = "-"
         THEN << SubSeq(s, j, i - 1) >> \o SplitFrom(s, i + 1, i + 1)
         ELSE SplitFrom(s, i + 1, j)

\* s.split("-")
split(s) == SplitFrom(s, 1, 1)

RECURSIVE join(_)
\* "-".join(parts)
join(parts) ==
    IF parts = <<>> THEN ""
    ELSE IF Len(parts) = 1 THEN parts[1]
         ELSE parts[1] \o "-" \o join(Tail(parts))

\* parts[:-1]
AllButLast(parts) == SubSeq(parts, 1, Len(parts) - 1)

\* the characters of model ids, in code point order
CodePoints == "-.0123456789abcdefghijklmnopqrstuvwxyz"

\* ord(c), up to a shift
ord(c) == CHOOSE i \in 1..Len(CodePoints) : Char(CodePoints, i) = c

RECURSIVE str_lt(_, _)
\* a < b on strings
str_lt(a, b) ==
    IF b = "" THEN FALSE
    ELSE IF a = "" THEN TRUE
    ELSE IF Char(a, 1) = Char(b, 1)
         THEN str_lt(SubSeq(a, 2, Len(a)), SubSeq(b, 2, Len(b)))
         ELSE ord(Char(a, 1)) < ord(Char(b, 1))

RECURSIVE insort(_, _)
\* x put into the sorted sequence xs, after the elements not greater than it
insort(xs, x) ==
    IF xs = <<>> THEN <<x>>
    ELSE IF str_lt(x, xs[1]) THEN <<x>> \o xs
         ELSE <<xs[1]>> \o insort(Tail(xs), x)

RECURSIVE sorted(_)
\* sorted(xs) on a list of strings
sorted(xs) ==
    IF xs = <<>> THEN <<>>
    ELSE insort(sorted(SubSeq(xs, 1, Len(xs) - 1)), xs[Len(xs)])

RECURSIVE join_spaces(_)
\* "  ".join(parts)
join_spaces(parts) ==
    IF parts = <<>> THEN ""
    ELSE IF Len(parts) = 1 THEN parts[1]
         ELSE parts[1] \o "  " \o join_spaces(Tail(parts))

\* re.match(r"^.+-[01][0-9][0-3][0-9]$", s) tried with the pattern's end at e
MatchesUpTo(s, e) ==
    /\ e >= 6
    /\ \A i \in 1..(e - 5) : Char(s, i) # "\n"
    /\ Char(s, e - 4) = "-"
    /\ Char(s, e - 3) \in {"0", "1"}
    /\ Char(s, e - 2) \in Digits
    /\ Char(s, e - 1) \in {"0", "1", "2", "3"}
    /\ Char(s, e) \in Digits

\* re.match(r"^.+-[01][0-9][0-3][0-9]$", s): "$" matches at the end of the
\* string and also just before a newline that ends the string
re_match(s) ==
    \/ MatchesUpTo(s, Len(s))
    \/ Len(s) >= 1 /\ Char(s, Len(s)) = "\n" /\ MatchesUpTo(s, Len(s) - 1)

-----------------------------------------------------------------------------
(* The instance: OpenAIGenerator *)

\* the keys _call_model puts in create_args before filtering
ArgKeys == {"model", "temperature", "max_tokens", "n", "top_p",
            "frequency_penalty", "presence_penalty", "stop", "seed"}

\* the keys of a request that carry the prompt
PromptKeys == {"prompt", "messages"}

\* configuration attributes that may be None
OptionalParams == {"temperature", "max_tokens", "top_p", "frequency_penalty",
                   "presence_penalty", "stop", "seed"}

\* DEFAULT_PARAMS, as _load_config leaves them on the instance when the
\* configuration overrides nothing (max_tokens comes from Generator)
DEFAULT_PARAMS ==
    [ temperature       |-> Float("0.7"),
      max_tokens        |-> Num(150),
      top_p             |-> Float("1.0"),
      frequency_penalty |-> Float("0.0"),
      presence_penalty  |-> Float("0.0"),
      seed              |-> None,
      stop              |-> List(<<"#", ";">>),
      suppressed_params |-> {},
      retry_json        |-> TRUE ]

\* a value a configuration sets a parameter to, when it sets it
Configured(k) == IF k = "seed" THEN Num(42) ELSE DEFAULT_PARAMS[k]

\* the instance after  self.name = name; self._load_config(config_root)
\* for a configuration that leaves the parameters of `absent` unset,
\* sets the others, and sets suppressed_params and retry_json
NewInstance(name, absent, suppressed, retry) ==
    [ name              |-> name,
      temperature       |-> IF "temperature" \in absent THEN None ELSE Configured("temperature"),
      max_tokens        |-> IF "max_tokens" \in absent THEN None ELSE Configured("max_tokens"),
      top_p             |-> IF "top_p" \in absent THEN None ELSE Configured("top_p"),
      frequency_penalty |-> IF "frequency_penalty" \in absent THEN None ELSE Configured("frequency_penalty"),
      presence_penalty  |-> IF "presence_penalty" \in absent THEN None ELSE Configured("presence_penalty"),
      seed              |-> IF "seed" \in absent THEN None ELSE Configured("seed"),
      stop              |-> IF "stop" \in absent THEN None ELSE Configured("stop"),
      suppressed_params |-> suppressed,
      retry_json        |-> retry,
      client            |-> None,
      generator         |-> None ]

\* openai.OpenAI(api_key=...): the id-th handle built
OpenAI(id) == <<"OpenAI", id>>

\* client.completions and client.chat.completions (cached properties: the
\* same object at every access of the same client)
completions(client) == <<"completions", client>>
chat_completions(client) == <<"chat.completions", client>>

\* which endpoint of its client a generator object is
EndpointOf(generator) == generator[1]

\* Route with the dated-suffix rule tried before the chat table
Route_DatedFirst(name) ==
    IF name \in completion_models THEN "completions"
    ELSE IF join(AllButLast(split(name))) \in chat_models /\ re_match(name)
         THEN "completions"
    ELSE IF name \in chat_models THEN "chat.completions"
    ELSE "unsupported"

\* the routing of _load_client, lines 259-270: the endpoint for a
\* non-empty name, or "unsupported"
Route(name) ==
    IF name \in completion_models THEN "completions"
    ELSE IF name \in chat_models THEN "chat.completions"
    ELSE IF join(AllButLast(split(name))) \in chat_models /\ re_match(name)
         THEN "completions"
    ELSE "unsupported"

\* what client.models.list().data may hold: model ids in the provider's order
Catalogs == { <<>>, <<"gpt-4">>, <<"gpt-4o", "whisper-1", "davinci-002", "gpt-4">> }

\* the answers client.models.list() may give to _load_client run on s: it is
\* queried for the empty name only
ListAnswers(s) == IF s.name = "" THEN Catalogs ELSE { <<>> }

\* _load_client testing the name against the tables before testing it for ""
_load_client_RoutesFirst(s, id, models) ==
    LET withClient == [s EXCEPT !.client = OpenAI(id)] IN
    IF Route(s.name) = "completions"
    THEN [ self |-> [withClient EXCEPT !.generator = completions(OpenAI(id))],
           error |-> <<"none">>, listed |-> <<>> ]
    ELSE IF Route(s.name) = "chat.completions"
    THEN [ self |-> [withClient EXCEPT !.generator = chat_completions(OpenAI(id))],
           error |-> <<"none">>, listed |-> <<>> ]
    ELSE [ self |-> withClient, error |-> <<"ValueError", "no API defined for", s.name>>,
           listed |-> <<>> ]

\* OpenAIGenerator._load_client run on instance s, building handle id, with
\* models what client.models.list().data holds if it is queried: the
\* instance afterwards, the ValueError raised (if any, with the part of its
\* message that varies) and the answers of the model-list queries made
_load_client(s, id, models) ==
    LET withClient == [s EXCEPT !.client = OpenAI(id)] IN
    IF s.name = ""
    THEN [ self |-> withClient,
           error |-> <<"ValueError", "model name is required",
                       join_spaces(sorted(models))>>,
           listed |-> <<models>> ]
    ELSE IF Route(s.name) = "completions"
    THEN [ self |-> [withClient EXCEPT !.generator = completions(OpenAI(id))],
           error |-> <<"none">>, listed |-> <<>> ]
    ELSE IF Route(s.name) = "chat.completions"
    THEN [ self |-> [withClient EXCEPT !.generator = chat_completions(OpenAI(id))],
           error |-> <<"none">>, listed |-> <<>> ]
    ELSE [ self |-> withClient, error |-> <<"ValueError", "no API defined for", s.name>>,
           listed |-> <<>> ]

\* _clear_client leaving the endpoint object on the instance
_clear_client_KeepsGenerator(s) == [s EXCEPT !.client = None]

\* OpenAIGenerator._clear_client
_clear_client(s) == [s EXCEPT !.generator = None, !.client = None]

\* OpenAICompatible.__init__ after _load_config: the instance afterwards and
\* the error raised
__init__(s, id, models) ==
    LET loaded == _load_client(s, id, models) IN
    IF loaded.error # <<"none">> THEN loaded
    ELSE IF loaded.self.generator \notin
              { chat_completions(loaded.self.client), completions(loaded.self.client) }
    THEN [loaded EXCEPT !.error = <<"ValueError", "unsupported model at generation time", "">>]
    ELSE [loaded EXCEPT !.self = _clear_client(loaded.self)]

\* __getstate__ without the call of _clear_client
__getstate___KeepsClient(s) == [ self |-> s, state |-> s ]

\* __getstate__ losing a parameter on the way
__getstate___DropsStop(s) ==
    LET cleared == [_clear_client(s) EXCEPT !.stop = None] IN
    [ self |-> cleared, state |-> cleared ]

\* OpenAICompatible.__getstate__: the instance afterwards and the dict returned
__getstate__(s) ==
    LET cleared == _clear_client(s) IN [ self |-> cleared, state |-> cleared ]

\* __setstate__ that only takes over the dict
__setstate___NoLoad(d, id, models) ==
    [ self |-> d, error |-> <<"none">>, listed |-> <<>> ]

\* OpenAICompatible.__setstate__(d) on a fresh object, building handle id
__setstate__(d, id, models) == _load_client(d, id, models)

-----------------------------------------------------------------------------
(* _call_model: the body *)

\* lines 175-185: create_args before filtering
RawArgs(s, n) ==
    [ model             |-> Str(s.name),
      temperature       |-> s.temperature,
      max_tokens        |-> s.max_tokens,
      n                 |-> Num(n),
      top_p             |-> s.top_p,
      frequency_penalty |-> s.frequency_penalty,
      presence_penalty  |-> s.presence_penalty,
      stop              |-> s.stop,
      seed              |-> s.seed ]

\* Kept testing the value's truth instead of "is not None"
Kept_Truthy(k, v, suppressed) ==
    /\ v \notin {None, Float("0.0"), Num(0), Str(""), List(<<>>)}
    /\ k \notin suppressed

\* Kept with suppression applied to the optional parameters only
Kept_OnlyOptional(k, v, suppressed) ==
    v # None /\ (k \notin suppressed \/ k \in {"model", "n", "max_tokens"})

\* the condition of the dict comprehension, lines 187-191
Kept(k, v, suppressed) == v # None /\ k \notin suppressed

\* lines 187-191: create_args after filtering
FilteredArgs(s, n) ==
    LET raw == RawArgs(s, n)
        keep == {k \in DOMAIN raw : Kept(k, raw[k], s.suppressed_params)}
    IN  [k \in keep |-> raw[k]]

\* args[key] = v
SetItem(args, key, v) ==
    [k \in DOMAIN args \cup {key} |-> IF k = key THEN v ELSE args[k]]

\* WrapPrompt with the wrong role
WrapPrompt_SystemRole(p) == List(<< [role |-> Str("system"), content |-> p] >>)

\* line 206: the message list a string prompt is wrapped in
WrapPrompt(p) == List(<< [role |-> Str("user"), content |-> p] >>)

\* PromptArgs without the type checks
PromptArgs_NoShapeCheck(s, p, args) ==
    IF s.client = None THEN <<"raise", "AttributeError">>
    ELSE IF s.generator = completions(s.client)
    THEN <<"send", SetItem(args, "prompt", p)>>
    ELSE IF s.generator = chat_completions(s.client)
    THEN IF isinstance(p, "str") THEN <<"send", SetItem(args, "messages", WrapPrompt(p))>>
         ELSE <<"send", SetItem(args, "messages", p)>>
    ELSE <<"send", args>>

\* lines 193-217: what the body does with the prompt.  <<"send", args>> goes
\* on to the network call, <<"return", v>> returns v, <<"raise", e>> raises e
PromptArgs(s, p, args) ==
    IF s.client = None THEN <<"raise", "AttributeError">>
    ELSE IF s.generator = completions(s.client)
    THEN IF ~isinstance(p, "str")
         THEN <<"return", List(<<>>)>>
         ELSE <<"send", SetItem(args, "prompt", p)>>
    ELSE IF s.generator = chat_completions(s.client)
    THEN IF isinstance(p, "str") THEN <<"send", SetItem(args, "messages", WrapPrompt(p))>>
         ELSE IF isinstance(p, "list") THEN <<"send", SetItem(args, "messages", p)>>
         ELSE <<"return", List(<<>>)>>
    ELSE <<"send", args>>

\* the exceptions the provider's create() may raise
TransientErrors == {"RateLimitError", "InternalServerError", "APITimeoutError",
                    "APIConnectionError"}
ProviderErrors == TransientErrors \cup {"BadRequestError", "JSONDecodeError",
                                        "AuthenticationError"}

\* Handle retrying a decode error whatever retry_json is
Handle_AlwaysRetriesDecode(s, p, exc) ==
    IF exc = "BadRequestError" THEN <<"return", List(<<None>>)>>
    ELSE IF exc = "JSONDecodeError" THEN <<"raise", "GarakBackoffTrigger">>
    ELSE <<"raise", exc>>

\* Handle with BadRequestError left to propagate
Handle_PropagatesBadRequest(s, p, exc) ==
    IF exc = "JSONDecodeError"
    THEN IF s.retry_json THEN <<"raise", "GarakBackoffTrigger">>
                         ELSE <<"raise", "JSONDecodeError">>
    ELSE <<"raise", exc>>

\* lines 219-231: the try statement around create(), for exception exc
Handle(s, p, exc) ==
    IF exc = "BadRequestError" THEN <<"return", List(<<None>>)>>
    ELSE IF exc = "JSONDecodeError"
    THEN IF s.retry_json THEN <<"raise", "GarakBackoffTrigger">>
                         ELSE <<"raise", "JSONDecodeError">>
    ELSE <<"raise", exc>>

\* the responses a provider endpoint may give: up to MaxGenerations choices,
\* the i-th with text "t<i>" or None
Text(i) == Str("text-" \o ToString(i))
Contents == UNION { [1..m -> {"text", "null"}] : m \in 1..MaxGenerations }
Choice(endpoint, i, c) ==
    LET v == IF c = "null" THEN None ELSE Text(i) IN
    IF endpoint = "completions" THEN [text |-> v] ELSE [message |-> [content |-> v]]
Responses(endpoint) ==
    { [choices |-> [i \in DOMAIN cs |-> Choice(endpoint, i, cs[i])]] : cs \in Contents }

\* c.text and c.message.content; AttributeError when the field is missing
text(c) == IF "text" \in DOMAIN c THEN c.text ELSE <<"AttributeError">>
message_content(c) == IF "message" \in DOMAIN c THEN c.message.content ELSE <<"AttributeError">>

\* Extract going by the kind of the endpoint object, without a look at the
\* live handle
Extract_ByEndpointKind(s, r) ==
    IF s.generator = None THEN <<"return", None>>
    ELSE <<"return",
           List([i \in DOMAIN r.choices |->
                    IF EndpointOf(s.generator) = "completions"
                    THEN text(r.choices[i]) ELSE message_content(r.choices[i])])>>

\* Extract reading the text field whatever the endpoint
Extract_ReadsText(s, r) ==
    IF s.client = None THEN <<"raise", "AttributeError">>
    ELSE LET out == [i \in DOMAIN r.choices |-> text(r.choices[i])] IN
         IF \E i \in DOMAIN out : out[i] = <<"AttributeError">>
         THEN <<"raise", "AttributeError">> ELSE <<"return", List(out)>>

\* lines 233-236: the value returned after a successful create()
Extract(s, r) ==
    IF s.client = None THEN <<"raise", "AttributeError">>
    ELSE IF s.generator = completions(s.client)
    THEN LET out == [i \in DOMAIN r.choices |-> text(r.choices[i])] IN
         IF \E i \in DOMAIN out : out[i] = <<"AttributeError">>
         THEN <<"raise", "AttributeError">> ELSE <<"return", List(out)>>
    ELSE IF s.generator = chat_completions(s.client)
    THEN LET out == [i \in DOMAIN r.choices |-> message_content(r.choices[i])] IN
         IF \E i \in DOMAIN out : out[i] = <<"AttributeError">>
         THEN <<"raise", "AttributeError">> ELSE <<"return", List(out)>>
    ELSE <<"return", None>>

-----------------------------------------------------------------------------
(* backoff.on_exception(backoff.fibo, (...), max_value=70) *)

\* the exception classes the decorator retries
Retried == TransientErrors \cup {"GarakBackoffTrigger"}

\* fibo_value without the ceiling
fibo_value_Uncapped(f) == f[1]

\* backoff.fibo(max_value): the value yielded in generator state f = <<a, b>>
fibo_value(f) == IF f[1] < max_value THEN f[1] ELSE max_value
\* ... and the generator state after the yield
fibo_next(f) == IF f[1] < max_value THEN <<f[2], f[1] + f[2]>> ELSE f

\* ShouldRetry catching every exception class
ShouldRetry_AnyException(exc) == TRUE

\* whether the decorator catches exception exc
ShouldRetry(exc) == exc \in Retried

\* max_tries_exceeded with a limit of five invocations
max_tries_exceeded_AtFive(n) == n = 5

\* backoff's give-up test when the n-th invocation of the target has raised
\* a caught exception: the decorator is given no max_tries, no max_time and
\* no giveup predicate, so it never gives up
max_tries_exceeded(n) == FALSE

\* backoff.full_jitter(value), the decorator's default jitter:
\* random.uniform(0, value), drawn here on a grid of JitterSteps steps
full_jitter(value) == { (value * j) \div JitterSteps : j \in 0..JitterSteps }

-----------------------------------------------------------------------------
(* Initial states *)

\* the state of a call frame that does not exist
NoCall ==
    /\ prompt = None
    /\ generations_this_call = 0
    /\ create_args = <<>>
    /\ response = <<>>
    /\ tries = 0
    /\ fib = <<1, 1>>
    /\ ceiling = 0
    /\ wait = 0
    /\ sent = 0
    /\ transients = 0
    /\ answer = "none"
    /\ request = <<>>
    /\ outcome = <<"none">>

\* before OpenAIGenerator(name, config): the name is one of names, the
\* configuration leaves the parameters of one of absents unset and sets
\* suppressed_params to one of suppresseds and retry_json to one of retries
InitWith(names, absents, suppresseds, retries) ==
    /\ life = "new"
    /\ ctor_error = <<"none">>
    /\ \E name \in names, absent \in absents, suppressed \in suppresseds,
          retry \in retries :
          self = NewInstance(name, absent, suppressed, retry)
    /\ created = 0
    /\ listed = <<>>
    /\ pickled = <<>>
    /\ pc = "idle"
    /\ baseline = <<>>
    /\ last = "none"
    /\ clearing = "idle"
    /\ NoCall

-----------------------------------------------------------------------------
(* Actions *)

\* OpenAIGenerator(name, config_root)
Construct ==
    /\ life = "new"
    /\ \E models \in ListAnswers(self) :
       LET r == __init__(self, created + 1, models) IN
       /\ self' = r.self
       /\ ctor_error' = r.error
       /\ listed' = listed \o r.listed
       /\ life' = IF r.error = <<"none">> THEN "ready" ELSE "failed"
    /\ created' = created + 1
    /\ last' = "construct"
    /\ UNCHANGED <<pickled, pc, prompt, generations_this_call, create_args,
                   response, tries, fib, ceiling, wait, sent, transients, answer,
                   request, baseline, outcome, clearing>>

\* the caller invokes _call_model(p, n) with p one of prompts and n one of
\* counts: the backoff wrapper starts its loop
Generate(prompts, counts) ==
    /\ life = "ready"
    /\ pc = "idle"
    /\ self.client # None \/ created < MaxHandles
    /\ \E p \in prompts, n \in counts :
          /\ prompt' = p
          /\ generations_this_call' = n
    /\ pc' = "call"
    /\ last' = "generate"
    /\ UNCHANGED <<life, ctor_error, self, created, listed, pickled, create_args,
                   response, tries, fib, ceiling, wait, sent, transients, answer,
                   request, baseline, outcome, clearing>>

\* NeedsClient reloading at every invocation
NeedsClient_Always(s) == TRUE

\* NeedsClient never reloading
NeedsClient_Never(s) == FALSE

\* line 171: whether _call_model reloads the client
NeedsClient(s) == s.client = None

\* one invocation of the target by the backoff loop, lines 171-217: reload
\* the client if it is None, assemble create_args, check the prompt
Enter ==
    /\ pc = "call"
    /\ tries' = tries + 1
    /\ \E models \in ListAnswers(self) :
       LET load == NeedsClient(self)
           loaded == IF load THEN _load_client(self, created + 1, models)
                     ELSE [self |-> self, error |-> <<"none">>, listed |-> <<>>]
           s == loaded.self
           step == IF loaded.error # <<"none">> THEN <<"raise", "ValueError">>
                   ELSE PromptArgs(s, prompt, FilteredArgs(s, generations_this_call))
       IN
       /\ self' = s
       /\ created' = IF load THEN created + 1 ELSE created
       /\ listed' = listed \o loaded.listed
       /\ create_args' = IF step[1] = "send" THEN step[2] ELSE create_args
       /\ outcome' = IF step[1] = "return" THEN <<"returned", step[2]>>
                     ELSE IF step[1] = "raise" THEN <<"raised", step[2]>>
                     ELSE outcome
       /\ pc' = IF step[1] = "send" THEN "send" ELSE "done"
    /\ UNCHANGED <<life, ctor_error, pickled, prompt, generations_this_call,
                   response, fib, ceiling, wait, sent, transients, answer, request,
                   baseline, last, clearing>>

\* what the provider may answer to a call of the endpoint
Answers(endpoint) ==
    { <<"response", r>> : r \in Responses(endpoint) }
        \cup { <<"error", e>> : e \in ProviderErrors }

\* lines 219-231 and the decorator: self.generator.create(**create_args) is
\* called; the provider answers or raises; BadRequestError returns [None];
\* a retried exception makes backoff draw the next wait and sleep; any other
\* exception leaves the call.  The provider raises at most maxFaults retried
\* faults in one call.
Send(maxFaults) ==
    /\ pc = "send"
    /\ IF self.generator = None
       THEN /\ outcome' = <<"raised", "AttributeError">>
            /\ pc' = "done"
            /\ UNCHANGED <<request, sent, baseline, response, wait, ceiling, fib,
                           transients, answer>>
       ELSE \E a \in Answers(EndpointOf(self.generator)) :
            LET h == IF a[1] = "error" THEN Handle(self, prompt, a[2])
                     ELSE <<"response">>
                retry == /\ h[1] = "raise"
                         /\ ShouldRetry(h[2])
                         /\ ~max_tries_exceeded(tries)
                req == [endpoint |-> self.generator, args |-> create_args]
            IN
            /\ retry => transients < maxFaults
            /\ request' = <<req>>
            /\ sent' = sent + 1
            /\ baseline' = IF baseline = <<>>
                           THEN << [prompt |-> prompt, n |-> generations_this_call,
                                    request |-> req] >>
                           ELSE baseline
            /\ response' = IF a[1] = "response" THEN <<a[2]>> ELSE response
            /\ answer' = IF a[1] = "response" THEN "response" ELSE a[2]
            /\ IF retry
               THEN /\ \E w \in full_jitter(fibo_value(fib)) : wait' = w
                    /\ ceiling' = fibo_value(fib)
                    /\ fib' = fibo_next(fib)
                    /\ transients' = transients + 1
                    /\ pc' = "wait"
                    /\ outcome' = outcome
               ELSE /\ UNCHANGED <<wait, ceiling, fib, transients>>
                    /\ pc' = IF a[1] = "response" THEN "extract" ELSE "done"
                    /\ outcome' = IF h[1] = "return" THEN <<"returned", h[2]>>
                                  ELSE IF h[1] = "raise" THEN <<"raised", h[2]>>
                                  ELSE outcome
    /\ UNCHANGED <<life, ctor_error, self, created, listed, pickled, prompt,
                   generations_this_call, create_args, tries, last, clearing>>

\* time.sleep(seconds) ends: the backoff loop invokes the target again
Wait ==
    /\ pc = "wait"
    /\ pc' = "call"
    /\ answer' = "none"
    /\ UNCHANGED <<life, ctor_error, self, created, listed, pickled, prompt,
                   generations_this_call, create_args, response, tries, fib,
                   ceiling, wait, sent, transients, request, baseline, outcome, last,
                   clearing>>

\* lines 233-236: the texts of the response's choices are returned
ExtractResponse ==
    /\ pc = "extract"
    /\ LET r == Extract(self, response[1]) IN
       outcome' = IF r[1] = "return" THEN <<"returned", r[2]>> ELSE <<"raised", r[2]>>
    /\ pc' = "done"
    /\ UNCHANGED <<life, ctor_error, self, created, listed, pickled, prompt,
                   generations_this_call, create_args, response, tries, fib,
                   ceiling, wait, sent, transients, answer, request, baseline, last,
                   clearing>>

\* the caller has the call's result (or its exception): the frame is gone
Collect ==
    /\ pc = "done"
    /\ pc' = "idle"
    /\ prompt' = None
    /\ generations_this_call' = 0
    /\ create_args' = <<>>
    /\ response' = <<>>
    /\ tries' = 0
    /\ fib' = <<1, 1>>
    /\ ceiling' = 0
    /\ wait' = 0
    /\ sent' = 0
    /\ transients' = 0
    /\ answer' = "none"
    /\ request' = <<>>
    /\ outcome' = <<"none">>
    /\ UNCHANGED <<life, ctor_error, self, created, listed, pickled, baseline, last,
                   clearing>>

\* the caller invokes _clear_client() between calls
Release ==
    /\ life = "ready"
    /\ pc = "idle"
    /\ self' = _clear_client(self)
    /\ last' = "release"
    /\ UNCHANGED <<life, ctor_error, created, listed, pickled, pc, prompt,
                   generations_this_call, create_args, response, tries, fib,
                   ceiling, wait, sent, transients, answer, request, baseline,
                   outcome, clearing>>

\* pickle.dumps(instance) between calls: __getstate__
Serialize ==
    /\ life = "ready"
    /\ pc = "idle"
    /\ LET r == __getstate__(self) IN
       /\ self' = r.self
       /\ pickled' = <<r.state>>
    /\ last' = "serialize"
    /\ UNCHANGED <<life, ctor_error, created, listed, pc, prompt,
                   generations_this_call, create_args, response, tries, fib,
                   ceiling, wait, sent, transients, answer, request, baseline,
                   outcome, clearing>>

\* pickle.loads(...) between calls: __setstate__ on a fresh object, which is
\* the instance followed from here on
Restore ==
    /\ life = "ready"
    /\ pc = "idle"
    /\ pickled # <<>>
    /\ created < MaxHandles
    /\ \E models \in ListAnswers(pickled[1]) :
       LET r == __setstate__(pickled[1], created + 1, models) IN
       /\ self' = r.self
       /\ listed' = listed \o r.listed
    /\ created' = created + 1
    /\ last' = "restore"
    /\ UNCHANGED <<life, ctor_error, pickled, pc, prompt,
                   generations_this_call, create_args, response, tries, fib,
                   ceiling, wait, sent, transients, answer, request, baseline,
                   outcome, clearing>>

\* the variables of the call frame and of the backoff loop around it
CallVars == <<pc, prompt, generations_this_call, create_args, response, tries,
              fib, ceiling, wait, sent, transients, answer, request, baseline,
              outcome>>

\* a call is in flight: it has started and has neither returned nor raised
InFlight == pc \in {"call", "send", "wait", "extract"}

\* another thread calls _clear_client() while a call is in flight: line 273
OverlapRelease ==
    /\ life = "ready"
    /\ InFlight
    /\ clearing = "idle"
    /\ created < MaxHandles
    /\ self' = [self EXCEPT !.generator = None]
    /\ clearing' = "274"
    /\ last' = "release"
    /\ UNCHANGED <<life, ctor_error, created, listed, pickled, CallVars>>

\* another thread pickles the instance while a call is in flight:
\* __getstate__ calls _clear_client(), line 273
OverlapSerialize ==
    /\ life = "ready"
    /\ InFlight
    /\ clearing = "idle"
    /\ created < MaxHandles
    /\ self' = [self EXCEPT !.generator = None]
    /\ clearing' = "113:274"
    /\ last' = "serialize"
    /\ UNCHANGED <<life, ctor_error, created, listed, pickled, CallVars>>

\* the overlapping _clear_client() goes on: line 274
ClearClient ==
    /\ clearing \in {"274", "113:274"}
    /\ self' = [self EXCEPT !.client = None]
    /\ clearing' = IF clearing = "274" THEN "idle" ELSE "114"
    /\ last' = IF clearing = "274" THEN "release" ELSE "serialize"
    /\ UNCHANGED <<life, ctor_error, created, listed, pickled, CallVars>>

\* the overlapping __getstate__ goes on: line 114, dict(self.__dict__)
CopyDict ==
    /\ clearing = "114"
    /\ pickled' = <<self>>
    /\ clearing' = "idle"
    /\ last' = "serialize"
    /\ UNCHANGED <<life, ctor_error, self, created, listed, CallVars>>

-----------------------------------------------------------------------------
(* Specifications *)

\* prompts: two strings, a message list, a tuple of messages, an integer
Messages == << [role |-> Str("system"), content |-> Str("be brief")],
               [role |-> Str("user"), content |-> Str("hi")] >>
Prompts == {Str("hi"), Str(""), List(Messages), Tuple(Messages), Num(5)}

\* model names: the two tables, dated and other names outside them, ""
OtherNames == { "", "gpt-4-0314", "gpt-4-0314\n", "gpt-4o-0513", "gpt-4-9999",
                "gpt-4-03145", "gpt-4-031", "gpt-4-2513", "gpt-4-0341",
                "gpt-4-03a4", "gpt-4-0\n314", "gpt-4-", "gpt4", "gpt-5-0314",
                "davinci-002-0101", "gpt-4-turbo-2024-04-09",
                "text-davinci-003" }
Names == chat_models \cup completion_models \cup OtherNames

\* sets of at most n of the keys
UpTo(keys, n) == { ks \in SUBSET keys : Cardinality(ks) <= n }

\* The retry loop and the client's life cycle: one chat and one completion
\* model, the default parameters, a prompt of every type, up to MaxFaults
\* retried faults in a call.
Init == InitWith({"gpt-4", "davinci-002"}, {{"seed"}}, {{}}, BOOLEAN)

Next ==
    \/ Construct
    \/ Generate(Prompts \ {Str("")}, 1..MaxGenerations)
    \/ Enter
    \/ Send(MaxFaults)
    \/ Wait
    \/ ExtractResponse
    \/ Collect
    \/ Release
    \/ Serialize
    \/ Restore

Spec == Init /\ [][Next]_vars

\* Routing: every model name, the default parameters, every prompt, up to
\* RouterFaults retried faults in a call.
InitRouter == InitWith(Names, {{"seed"}}, {{}}, BOOLEAN)

NextRouter ==
    \/ Construct
    \/ Generate(Prompts, 1..MaxGenerations)
    \/ Enter
    \/ Send(RouterFaults)
    \/ Wait
    \/ ExtractResponse
    \/ Collect

SpecRouter == InitRouter /\ [][NextRouter]_vars

\* Request assembly: one chat and one completion model, configurations that
\* leave up to MaxAbsent parameters unset and suppress up to MaxSuppressed
\* keys, a string prompt, one generation, no retried fault.
InitBuild ==
    InitWith({"gpt-4", "davinci-002"}, UpTo(OptionalParams, MaxAbsent),
             UpTo(ArgKeys \cup PromptKeys, MaxSuppressed), {TRUE})

NextBuild ==
    \/ Construct
    \/ Generate({Str("hi")}, {1})
    \/ Enter
    \/ Send(0)
    \/ ExtractResponse
    \/ Collect

SpecBuild == InitBuild /\ [][NextBuild]_vars

\* The retry loop under the scheduling it relies on: a started invocation
\* of the target runs on, create() answers or raises within the client's
\* timeout, and time.sleep() returns.  One chat and one completion model, a
\* string prompt, one generation, up to MaxFaults retried faults in a call.
InitRetry == InitWith({"gpt-4", "davinci-002"}, {{"seed"}}, {{}}, BOOLEAN)

NextRetry ==
    \/ Construct
    \/ Generate({Str("hi")}, {1})
    \/ Enter
    \/ Send(MaxFaults)
    \/ Wait
    \/ ExtractResponse
    \/ Collect

FairRetry ==
    /\ WF_vars(Enter)
    /\ WF_vars(Send(MaxFaults))
    /\ WF_vars(Wait)
    /\ WF_vars(ExtractResponse)

SpecRetry == InitRetry /\ [][NextRetry]_vars /\ FairRetry

\* Overlap: a second thread releases or pickles the instance while a call
\* is in flight, its assignments interleaved with the steps of the call.
\* One chat and one completion model, a string prompt, one generation, up
\* to RouterFaults retried faults in a call.
InitOverlap == InitWith({"gpt-4", "davinci-002"}, {{"seed"}}, {{}}, {TRUE})

NextOverlap ==
    \/ Construct
    \/ Generate({Str("hi")}, {1})
    \/ Enter
    \/ Send(RouterFaults)
    \/ Wait
    \/ ExtractResponse
    \/ Collect
    \/ OverlapRelease
    \/ OverlapSerialize
    \/ ClearClient
    \/ CopyDict

SpecOverlap == InitOverlap /\ [][NextOverlap]_vars

-----------------------------------------------------------------------------
(* Properties *)

\* a call of _call_model has ended by returning v
Returned(v) == pc = "done" /\ outcome = <<"returned", v>>
\* a call of _call_model has ended by raising e
Raised(e) == pc = "done" /\ outcome = <<"raised", e>>

\* C1: when create() raises BadRequestError, the call ends at once by
\* returning [None], whatever generations_this_call is and however many
\* faults were retried before: the exception is not raised, backoff does not
\* sleep on it, and the only network calls are the ones made up to it.
C1_BadRequestReturnsSingleNull ==
    answer = "BadRequestError" =>
        /\ Returned(List(<<None>>))
        /\ sent = transients + 1
        /\ tries = sent

\* C1 happens: a bad request after retried faults, more than one generation
C1_Witness ==
    /\ answer = "BadRequestError"
    /\ pc = "done"
    /\ transients >= 2
    /\ generations_this_call >= 2

\* the texts of a response's choices, in the provider's order
TextsOf(r) ==
    [i \in DOMAIN r.choices |->
        IF "text" \in DOMAIN r.choices[i] THEN r.choices[i].text
        ELSE r.choices[i].message.content]

\* a call has ended by returning what a successful create() answered
Succeeded == pc = "done" /\ answer = "response"

\* C2, what holds of the retry count and of the result: a call that ends with
\* a successful create() after N retried faults has slept N times, has made
\* N + 1 network calls and returns the texts of that last response.
RetriesThenResult ==
    Succeeded =>
        /\ sent = transients + 1
        /\ tries = sent
        /\ outcome = <<"returned", List(TextsOf(response[1]))>>

\* backoff sleeps on a retried fault (the step from the network call to the sleep)
Sleeps == pc = "send" /\ pc' = "wait"

\* C2 as claimed: N transient faults (no decode error is retried when
\* retry_json is off) and then success make N retries and N + 1 network
\* calls, the result is returned, every wait is at most max_value, and the
\* waits of one call never decrease.
C2_WaitsNonDecreasing ==
    /\ [](RetriesThenResult /\ wait <= max_value)
    /\ [][(Sleeps /\ ~self.retry_json /\ transients >= 1) => wait' >= wait]_vars

\* C2 as amended: the same, with the ceilings that backoff.fibo yields
\* (1, 1, 2, 3, 5, ... capped at max_value) never decreasing within a call,
\* and every wait between 0 and its ceiling, hence at most max_value.
C2_CeilingsNonDecreasing ==
    /\ [](RetriesThenResult /\ 0 <= wait /\ wait <= ceiling /\ ceiling <= max_value)
    /\ [][Sleeps => (ceiling' >= ceiling /\ ceiling' >= 1)]_vars

\* C2 happens: success after so many transient faults that the ceiling is
\* max_value
C2_Witness ==
    /\ Succeeded
    /\ ~self.retry_json
    /\ transients >= 11
    /\ ceiling = max_value

\* the endpoint the instance's generator object is
Variant == EndpointOf(self.generator)

\* the prompt does not fit the endpoint
Misfit(endpoint, p) ==
    IF endpoint = "completions" THEN p[1] # "str"
    ELSE p[1] \notin {"str", "list", "tuple"}

\* C3: once the body has run on a prompt that does not fit the instance's
\* endpoint, the call has ended by returning the empty list on its first
\* try, with no network request sent and nothing retried.
C3_MisfitReturnsEmpty ==
    (tries >= 1 /\ self.generator # None /\ Misfit(Variant, prompt)) =>
        /\ Returned(List(<<>>))
        /\ tries = 1
        /\ sent = 0
        /\ request = <<>>
        /\ transients = 0

\* C3 happens: a completion model was given a list of messages
C3_Witness ==
    /\ self.name \in completion_models
    /\ prompt[1] = "list"
    /\ pc = "done"

\* C4: a request sent for a string prompt s carries, for a model of the chat
\* table, messages = [{"role": "user", "content": s}] and no prompt key, and
\* for a model of the completion table, prompt = s and no messages key.
C4_StringPromptRequest ==
    (sent >= 1 /\ prompt[1] = "str") =>
        LET args == request[1].args IN
        /\ self.name \in chat_models =>
              /\ "messages" \in DOMAIN args
              /\ args.messages =
                    <<"list", << [role |-> <<"str", "user">>, content |-> prompt] >> >>
              /\ "prompt" \notin DOMAIN args
        /\ self.name \in completion_models =>
              /\ "prompt" \in DOMAIN args
              /\ args.prompt = prompt
              /\ "messages" \notin DOMAIN args

\* C4 happens: a dated chat model was sent the empty string
C4_Witness ==
    /\ sent >= 1
    /\ self.name = "gpt-3.5-turbo-0613"
    /\ prompt = Str("")

\* the six keys C5 names
SixKeys == {"temperature", "top_p", "frequency_penalty", "presence_penalty",
            "seed", "stop"}

\* the value the configuration and the call give key k
ConfiguredValue(k) ==
    IF k = "model" THEN <<"str", self.name>>
    ELSE IF k = "n" THEN <<"int", generations_this_call>>
    ELSE self[k]

\* C5: in the assembled parameter set, a suppressed key of the six is absent,
\* every other configuration key that has a value and is not itself
\* suppressed is present with that value, and a key with no value is absent.
C5_SuppressRemovesOnlyThatKey ==
    create_args # <<>> =>
        /\ \A k \in SixKeys \cap self.suppressed_params :
              /\ k \notin DOMAIN create_args
              /\ \A j \in ArgKeys \ {k} :
                    (ConfiguredValue(j) # None /\ j \notin self.suppressed_params) =>
                        /\ j \in DOMAIN create_args
                        /\ create_args[j] = ConfiguredValue(j)
        /\ \A k \in ArgKeys : ConfiguredValue(k) = None => k \notin DOMAIN create_args

\* C5 happens: a configured key of the six is suppressed, another has no value
C5_Witness ==
    /\ create_args # <<>>
    /\ \E k \in SixKeys \cap self.suppressed_params : self[k] # None
    /\ \E k \in SixKeys : self[k] = None

\* C6 as claimed: no request carries a key that is in suppressed_params.
C6_NoSuppressedKeySent ==
    request # <<>> =>
        \A k \in self.suppressed_params : k \notin DOMAIN request[1].args

\* C6 as amended: no request carries a suppressed key among model,
\* temperature, max_tokens, n, top_p, frequency_penalty, presence_penalty,
\* stop and seed; the key that carries the prompt (prompt or messages) is
\* in every request, suppressed or not.
C6_NoSuppressedConfigKeySent ==
    request # <<>> =>
        LET args == request[1].args IN
        /\ \A k \in self.suppressed_params \ {"prompt", "messages"} :
              k \notin DOMAIN args
        /\ EndpointOf(request[1].endpoint) = "completions" => "prompt" \in DOMAIN args
        /\ EndpointOf(request[1].endpoint) = "chat.completions" => "messages" \in DOMAIN args

\* C6 happens: a request was sent while model, n or max_tokens is suppressed
C6_Witness ==
    /\ request # <<>>
    /\ self.suppressed_params \cap {"model", "n", "max_tokens"} # {}

\* two Python values are equal
SameValue(a, b) == a[1] = b[1] /\ a = b

\* the running call has sent a request for the prompt and the count of the
\* first request the instance ever sent
RepeatsBaseline ==
    /\ sent >= 1
    /\ baseline # <<>>
    /\ SameValue(baseline[1].prompt, prompt)
    /\ baseline[1].n = generations_this_call

\* C7: a request sent for the same prompt and count as the instance's first
\* request carries the same parameters to the same endpoint variant,
\* whatever _clear_client, __getstate__ and __setstate__ calls and reloads
\* of the client lie between the two.
C7_SameRequestAfterCycles ==
    RepeatsBaseline =>
        /\ request[1].args = baseline[1].request.args
        /\ EndpointOf(request[1].endpoint) = EndpointOf(baseline[1].request.endpoint)

\* C7 happens: the same prompt and count are sent again on another client
\* handle, after the instance was pickled
C7_Witness ==
    /\ RepeatsBaseline
    /\ request[1].endpoint # baseline[1].request.endpoint
    /\ pickled # <<>>

\* C8 as claimed: the generator of an instance named "gpt-4-0613" is the
\* completions endpoint.
C8_Gpt4_0613_IsCompletion ==
    (self.name = "gpt-4-0613" /\ self.generator # None) => Variant = "completions"

\* C8 as amended: "gpt-4-0613" is in the chat table, so the instance is
\* constructed and its generator is the chat completions endpoint.
C8_Gpt4_0613_IsChat ==
    self.name = "gpt-4-0613" =>
        /\ life \in {"new", "ready"}
        /\ self.generator # None => Variant = "chat.completions"

\* C8 happens: an instance named "gpt-4-0613" has sent a request
C8_Witness ==
    /\ self.name = "gpt-4-0613"
    /\ sent >= 1
    /\ self.generator # None

\* the index of the last hyphen of s, 0 if it has none
LastHyphen(s) ==
    LET at == {i \in 1..Len(s) : SubSeq(s, i, i) = "-"} IN
    IF at = {} THEN 0 ELSE CHOOSE i \in at : \A j \in at : j <= i

\* four characters of the form [01][0-9][0-3][0-9]
IsMMDD(x) ==
    /\ Len(x) = 4
    /\ SubSeq(x, 1, 1) \in {"0", "1"}
    /\ SubSeq(x, 2, 2) \in {"0", "1", "2", "3", "4", "5", "6", "7", "8", "9"}
    /\ SubSeq(x, 3, 3) \in {"0", "1", "2", "3"}
    /\ SubSeq(x, 4, 4) \in {"0", "1", "2", "3", "4", "5", "6", "7", "8", "9"}

\* the variant rules (a)-(d) give a name
RuleVariant(name) ==
    LET h == LastHyphen(name) IN
    IF name \in completion_models THEN "completions"
    ELSE IF name \in chat_models THEN "chat.completions"
    ELSE IF h > 0 /\ SubSeq(name, 1, h - 1) \in chat_models
                  /\ IsMMDD(SubSeq(name, h + 1, Len(name)))
         THEN "completions"
    ELSE "fails"

\* C9: for a non-empty name, construction succeeds exactly when one of the
\* rules (a)-(c) applies, the generator is then the endpoint the first such
\* rule names, and otherwise construction fails with an error naming the
\* model.
C9_VariantByFirstRule ==
    (life # "new" /\ self.name # "") =>
        IF RuleVariant(self.name) = "fails"
        THEN life = "failed" /\ ctor_error[1] = "ValueError" /\ ctor_error[3] = self.name
        ELSE life = "ready" /\ (self.generator # None => Variant = RuleVariant(self.name))

\* C10: when create() raises a decode error, backoff sleeps and retries if
\* retry_json is set; if it is not set the call ends at once by raising the
\* decode error, without a sleep or another network call.
C10_DecodeRetriedIffFlag ==
    answer = "JSONDecodeError" =>
        IF self.retry_json
        THEN pc = "wait" /\ outcome = <<"none">> /\ transients = sent
        ELSE Raised("JSONDecodeError") /\ sent = transients + 1 /\ tries = sent

\* C10 happens: a decode error with retry_json off, after a retried fault
C10_Witness ==
    /\ answer = "JSONDecodeError"
    /\ ~self.retry_json
    /\ pc = "done"
    /\ transients >= 1

\* the provider errors that are neither retried, nor a bad request, nor a
\* decode error
Unclassified == ProviderErrors \ (TransientErrors \cup {"BadRequestError", "JSONDecodeError"})

\* C11: when create() raises an error that is neither one of the four
\* retried faults nor a bad request nor a decode error, the call ends at
\* once by raising that error: backoff does not sleep on it, no further
\* network call is made, and no value is returned.
C11_UnclassifiedPropagates ==
    answer \in Unclassified =>
        /\ Raised(answer)
        /\ sent = transients + 1
        /\ tries = sent
        /\ response = <<>>

\* C11 happens: an authentication error, after retried faults
C11_Witness ==
    /\ answer = "AuthenticationError"
    /\ pc = "done"
    /\ transients >= 2
    /\ outcome[1] = "raised"

\* every network call the running call has made raised a retried fault
OnlyFaultsSoFar == sent >= 1 /\ transients = sent

\* C12: a transient fault of create() is never raised to the caller,
\* whatever the number of faults before it: backoff sleeps and invokes the
\* target again.  As long as every network call of a call has raised a
\* retried fault the call has not ended, so it never ends if the faults
\* never stop.  Every call in which the faults stop ends, and one that ends
\* on a response returns the texts of that response.
C12_RetriesWithoutLimit ==
    /\ [](answer \in TransientErrors => (pc = "wait" /\ outcome = <<"none">>))
    /\ [](outcome[1] = "raised" => outcome[2] \notin TransientErrors)
    /\ [](OnlyFaultsSoFar => (pc \in {"wait", "call", "send"} /\ outcome = <<"none">>))
    /\ [](Succeeded => outcome = <<"returned", List(TextsOf(response[1]))>>)
    /\ ((pc = "call") ~> (pc = "done"))

\* C12 happens: a call returns the provider's answer after eleven
\* consecutive transient faults
C12_Witness ==
    /\ Succeeded
    /\ ~self.retry_json
    /\ transients >= 11
    /\ tries = transients + 1
    /\ outcome[1] = "returned"

\* the string x occurs in the string s
Contains(s, x) ==
    \E i \in 1..(Len(s) - Len(x) + 1) : SubSeq(s, i, i + Len(x) - 1) = x

\* C13: once OpenAIGenerator("") has run, it has failed with the ValueError
\* that asks for a model name, whose message names every model the provider
\* listed; client.models.list() was queried exactly once, on the one client
\* handle built, and no call of the instance ever starts.
C13_EmptyNameFailsListingModels ==
    (life # "new" /\ self.name = "") =>
        /\ life = "failed"
        /\ ctor_error[1] = "ValueError"
        /\ ctor_error[2] = "model name is required"
        /\ Len(listed) = 1
        /\ \A i \in DOMAIN listed[1] : Contains(ctor_error[3], listed[1][i])
        /\ created = 1
        /\ pc = "idle" /\ tries = 0 /\ sent = 0 /\ baseline = <<>>

\* C13 happens: construction with the empty name has failed, the provider
\* having listed four models
C13_Witness ==
    /\ life = "failed"
    /\ self.name = ""
    /\ listed # <<>>
    /\ Len(listed[1]) = 4
    /\ ctor_error[3] = "davinci-002  gpt-4  gpt-4o  whisper-1"

\* the handle and the endpoint object of the instance are absent
Absent == self.client = None /\ self.generator = None

\* nothing was invoked on the instance since the operation op ended
JustAfter(op) == life = "ready" /\ pc = "idle" /\ last = op

\* the step in which a call's first invocation of the target runs lines 171-217
FirstEnter == pc = "call" /\ tries = 0 /\ pc' # "call"

\* the step is an acquire that builds a handle and keeps it on the instance
Acquires == created' = created + 1 /\ self'.client = OpenAI(created')

\* C14 as claimed: the handle is absent right after construction and right
\* after __setstate__, so that the generate call that follows either of
\* them finds it absent and builds it in its acquire step.
C14_AbsentAfterConstructAndRestore ==
    /\ []((JustAfter("construct") \/ JustAfter("restore")) => Absent)
    /\ [][(FirstEnter /\ self.client = None) => Acquires]_vars

\* C14 as amended: the handle is absent right after construction, and the
\* first generate call after it builds the handle in its acquire step;
\* right after __setstate__ the handle and the endpoint object are present,
\* built by __setstate__ itself, and the generate call that follows
\* builds no handle and uses that one.
C14_AbsentAfterConstructPresentAfterRestore ==
    /\ [](JustAfter("construct") => (Absent /\ created = 1))
    /\ [](JustAfter("restore") =>
             /\ self.client = OpenAI(created)
             /\ self.generator \in {completions(self.client), chat_completions(self.client)})
    /\ [][(JustAfter("construct") /\ last' = "generate") =>
             (self' = self /\ created' = created)]_vars
    /\ [][(FirstEnter /\ self.client = None) => Acquires]_vars
    /\ [][(JustAfter("restore") /\ last' = "generate") =>
             (self' = self /\ created' = created)]_vars
    /\ [][(FirstEnter /\ self.client # None) =>
             (self' = self /\ created' = created)]_vars

\* C14 happens: the instance was restored from the pickle of an instance
\* without a handle, and has one
C14_Witness ==
    /\ JustAfter("restore")
    /\ pickled[1].client = None
    /\ self.client # None
    /\ created >= 3

\* the fields of the instance other than the handle and the endpoint object
Settings(s) == [k \in DOMAIN s \ {"client", "generator"} |-> s[k]]

\* C15: the dict __getstate__ returns holds None for client and for
\* generator, whatever state the instance was pickled in; right after it the
\* live instance holds neither and is otherwise what was pickled; the first
\* invocation of the next call builds a new handle and changes nothing else,
\* and a request then sent for the prompt and count of the instance's first
\* request is that request again.
C15_SerializeDestroysHandle ==
    /\ [](pickled # <<>> =>
             (pickled[1].client = None /\ pickled[1].generator = None))
    /\ [](JustAfter("serialize") => (Absent /\ pickled = <<self>>))
    /\ [][(last' = "serialize" /\ pickled' # pickled) =>
             Settings(self') = Settings(self)]_vars
    /\ [][(JustAfter("serialize") /\ last' = "generate") => self' = self]_vars
    /\ [][(FirstEnter /\ self.client = None) =>
             /\ Acquires
             /\ self'.generator \in
                    {completions(self'.client), chat_completions(self'.client)}
             /\ Settings(self') = Settings(self)
             /\ pc' \in {"send", "done"}]_vars
    /\ []((RepeatsBaseline /\ pickled # <<>>) =>
             /\ request[1].args = baseline[1].request.args
             /\ EndpointOf(request[1].endpoint) = EndpointOf(baseline[1].request.endpoint)
             /\ outcome[1] # "raised" \/ outcome[2] \in ProviderErrors)

\* C15 happens: an instance that had sent a request was pickled, and its
\* next call has built a new handle and returned the provider's answer to
\* the same request
C15_Witness ==
    /\ pickled # <<>>
    /\ Settings(pickled[1]) = Settings(self)
    /\ RepeatsBaseline
    /\ Succeeded
    /\ outcome[1] = "returned"
    /\ self.client = OpenAI(created)
    /\ request[1].endpoint # baseline[1].request.endpoint

\* C16: an invocation of the target on an instance that has a handle builds
\* no handle and leaves the handle and the endpoint object as they are; a
\* handle is only ever built when the instance (for __setstate__, the dict
\* restored) has none; so from one generate call to the next, retries
\* included, an instance that has a handle keeps that handle, and none is
\* built.
C16_AcquireIdempotent ==
    /\ [][(pc = "call" /\ pc' # "call" /\ self.client # None) =>
             (self' = self /\ created' = created)]_vars
    /\ [][created' # created =>
             /\ created' = created + 1
             /\ IF life = "new" THEN self.client = None
                ELSE /\ self'.client = OpenAI(created')
                     /\ IF last' = "restore" /\ pc = "idle"
                        THEN pickled[1].client = None
                        ELSE self.client = None]_vars
    /\ [][(last' = "generate" /\ self.client # None) =>
             /\ self'.client = self.client
             /\ self'.generator = self.generator
             /\ created' = created]_vars

\* C16 happens: a later call, for another prompt, has retried and has sent
\* its request on the handle of the instance's first request
C16_Witness ==
    /\ baseline # <<>>
    /\ baseline[1].prompt[1] # prompt[1]
    /\ transients >= 2
    /\ tries >= 3
    /\ sent >= 3
    /\ request[1].endpoint = baseline[1].request.endpoint
    /\ self.client = OpenAI(created)

\* C17 as claimed: construction leaves the resolved endpoint variant on the
\* instance, and what the instance holds as its variant never changes
\* afterwards, so that the routing runs once, for the one handle built at
\* construction.
C17_VariantStoredOnce ==
    /\ [](life = "ready" => self.generator # None)
    /\ [][life = "ready" => self'.generator = self.generator]_vars
    /\ [](life = "ready" => created = 1)

\* C17 as amended: construction resolves the variant from the name but
\* leaves no endpoint object on the instance, and neither do _clear_client
\* and __getstate__; the name never changes; whenever the instance holds an
\* endpoint object it is the endpoint of the live handle that the rules give
\* for the name, resolved again by the _load_client that built that handle;
\* so every request of the instance goes to that one variant.
C17_VariantResolvedAtEachAcquire ==
    /\ []((JustAfter("construct") \/ JustAfter("release") \/ JustAfter("serialize"))
             => self.generator = None)
    /\ [][life # "new" => self'.name = self.name]_vars
    /\ [](self.generator # None =>
             /\ self.client # None
             /\ self.generator[2] = self.client
             /\ Variant = RuleVariant(self.name))
    /\ [][(self'.generator # self.generator /\ self'.generator # None) => Acquires]_vars
    /\ [](request # <<>> =>
             /\ EndpointOf(request[1].endpoint) = RuleVariant(self.name)
             /\ EndpointOf(request[1].endpoint) = EndpointOf(baseline[1].request.endpoint))

\* C17 happens: after a pickle and a restore the instance sends, for another
\* prompt, a request to the variant of its first request, on an endpoint
\* object of a third or later handle
C17_Witness ==
    /\ baseline # <<>>
    /\ pickled # <<>>
    /\ sent >= 1
    /\ baseline[1].prompt[1] # prompt[1]
    /\ request[1].endpoint[2] = OpenAI(created)
    /\ created >= 3
    /\ baseline[1].request.endpoint[2] = OpenAI(2)

\* C18: a call that ends on a response returns a list with one element per
\* choice of the response, in the response's order: for a model of the chat
\* table the choice's message content, for any other model its text, None
\* where the provider gave None; reading the field of the other variant
\* would have raised AttributeError instead.
C18_ResultIsChoiceTexts ==
    Succeeded =>
        LET choices == response[1].choices IN
        /\ outcome[1] = "returned"
        /\ outcome[2][1] = "list"
        /\ Len(outcome[2][2]) = Len(choices)
        /\ \A i \in 1..Len(choices) :
              outcome[2][2][i] =
                  IF self.name \in chat_models THEN choices[i].message.content
                  ELSE choices[i].text

\* C18 happens: a chat model asked for one generation got two choices, the
\* first without content, and the call returned [None, "text-2"]
C18_Witness ==
    /\ Succeeded
    /\ self.name \in chat_models
    /\ generations_this_call = 1
    /\ Len(response[1].choices) = 2
    /\ response[1].choices[1].message.content = <<"None">>
    /\ outcome = <<"returned", <<"list", << <<"None">>, <<"str", "text-2">> >> >> >>

\* the instance holds a handle and one of that handle's two endpoint objects
Attached ==
    /\ self.client # None
    /\ self.generator \in {completions(self.client), chat_completions(self.client)}

\* C19: with no operation overlapping another, a call is about to run
\* create(), or is reading its response, only on an instance that holds a
\* handle and an endpoint object of that handle; every request sent went to
\* such an endpoint object; and no call ends with the AttributeError that a
\* None handle or endpoint object would raise.
C19_NetworkCallOnlyWithHandle ==
    /\ pc \in {"send", "wait", "extract"} => Attached
    /\ request # <<>> =>
          /\ request[1].endpoint # None
          /\ request[1].endpoint = self.generator
          /\ Attached
    /\ outcome # <<"raised", "AttributeError">>
    /\ outcome # <<"returned", None>>

\* C19 happens: on an instance that was pickled and is on its fourth handle
\* or a later one, a call that has already retried twice is about to run
\* create() again
C19_Witness ==
    /\ pc = "send"
    /\ tries >= 3
    /\ pickled # <<>>
    /\ created >= 4
    /\ self.client = OpenAI(created)
    /\ last = "generate"

\* an operation of another thread has acted on the instance since the
\* running call started, or is under way
Overlapped == last \in {"release", "serialize"} \/ clearing # "idle"

\* the ends of a call that only a None handle or endpoint object produces
BrokenEnds == { <<"raised", "AttributeError">>, <<"returned", None>> }

\* C20: when a _clear_client() or a __getstate__() of another thread runs
\* while a call is in flight, the call can stand before create() or before
\* the extraction on an instance without its handle or endpoint object, and
\* it goes on: before create() it ends with AttributeError and no request,
\* before the extraction with AttributeError or by returning None.  Only
\* such an overlap brings a call there.
C20_OverlapBreaksGenerate ==
    /\ []((pc \in {"send", "extract"} /\ ~Attached) => Overlapped)
    /\ []((pc = "done" /\ outcome \in BrokenEnds) => Overlapped)
    /\ [][(pc = "send" /\ self.generator = None /\ pc' # "send") =>
             /\ pc' = "done"
             /\ outcome' = <<"raised", "AttributeError">>
             /\ sent' = sent]_vars
    /\ [][(pc = "extract" /\ ~Attached /\ pc' # "extract") =>
             (pc' = "done" /\ outcome' \in BrokenEnds)]_vars

\* C20 happens: the call had its client and had put the prompt into
\* create_args when another thread's _clear_client() ran, and create() was
\* then called on None: AttributeError, no request sent
C20_Witness ==
    /\ Raised("AttributeError")
    /\ last = "release"
    /\ clearing = "idle"
    /\ Absent
    /\ tries = 1
    /\ sent = 0
    /\ create_args # <<>>
    /\ DOMAIN create_args \cap {"prompt", "messages"} # {}

====
